---- MODULE Spec2Model ----
(***************************************************************************)
(* A model of the UltRank tiering engine (ultrank_tiering.py): the player  *)
(* value registry, the region rules, and Tournament.calculate_tier with    *)
(* the eligibility predicates of TournamentTieringResult.                  *)
(*                                                                         *)
(* Python values are represented as follows.                               *)
(*   None / a value      <<>> / <<v>>                                      *)
(*   a dict key that is an int (start.gg player id)   [int |-> n]          *)
(*   a dict key that is a str (tag used as identity)  [str |-> s]          *)
(*   a list              a sequence                                        *)
(*   a set               a set, or a sequence when the iteration order of  *)
(*                       the set decides the outcome (region_mults)        *)
(*   a date              an integer day number                             *)
(***************************************************************************)
EXTENDS Integers, Sequences, FiniteSets, TLC

VARIABLES
    scored_players,   \* dict id -> PlayerValueGroup, in insertion order
    scored_tags,      \* set of lower-cased known tags
    region_mults,     \* the set of RegionValue rules, in iteration order
    participants,     \* Tournament.participants (set of Entrant)
    dq_list,          \* Tournament.dq_list: player id -> <<Entrant, count>>
    total_entrants,   \* Tournament.total_entrants
    address,          \* Tournament.address (dict of the geocoder)
    start_time,       \* Tournament.start_time
    is_invitational,  \* Tournament.is_invitational
    tier,             \* Tournament.tier: None or the cached result
    built,            \* number of TournamentTieringResult objects constructed
    raised,           \* exception that left the constructor or
                      \* calculate_tier, or None
    ret,              \* the last call and what it returned
    event_phases,     \* the phases of the event, as the API lists them
    pc,               \* position of Tournament.__init__, "done" at its end
    phases,           \* Tournament.phases
    total_dqs,        \* Tournament.total_dqs
    sets,             \* get_dqs: the list get_sets_in_phases returned
    cursor,           \* get_dqs: number of sets the loop has taken
    attempt,          \* gather_location_info: geocoder calls that failed
    has_address,      \* whether the attribute Tournament.address is set
    slugs,            \* bulk_score: its argument
    pending,          \* bulk_score: the slugs the loop has yet to take
    results,          \* bulk_score: the list it builds
    source,           \* the data source: its totalPages, its broken page
    fetch,            \* the paginated fetch that runs, or None
    fetch_pc,         \* "loop" inside `while True`, "returned", "raised"
    page,             \* the fetch loop's page
    requested,        \* page numbers requested so far, in order
    collected         \* get_sets_in_phases: sets; get_entrants: participants

vars == <<scored_players, scored_tags, region_mults, participants, dq_list,
          total_entrants, address, start_time, is_invitational, tier, built,
          raised, ret, event_phases, pc, phases, total_dqs, sets, cursor,
          attempt, has_address, slugs, pending, results, source, fetch,
          fetch_pc, page, requested, collected>>

registryVars == <<scored_players, scored_tags>>
constructorVars == <<event_phases, pc, phases, total_dqs, sets, cursor,
                     attempt, has_address>>
bulkVars == <<slugs, pending, results>>
fetchVars == <<source, fetch, fetch_pc, page, requested, collected>>
tournamentVars == <<participants, dq_list, total_entrants, address,
                    start_time, is_invitational, constructorVars, bulkVars,
                    fetchVars>>

None == <<>>
Some(v) == <<v>>

IntKey(n) == [int |-> n]
StrKey(s) == [str |-> s]

Max(a, b) == IF a >= b THEN a ELSE b
Min(a, b) == IF a <= b THEN a ELSE b

Range(s) == {s[i] : i \in 1..Len(s)}

\* ------------------------------------------------------------------------
\* Strings.  Tags are drawn from a fixed alphabet of gamer tags; str.lower()
\* and the code-point order of str comparison are tabulated for it.

TagOrder == <<"Armada", "Cody", "Hbox", "LEFFEN", "Leffen", "Mango", "Wizzy",
              "Zain", "anon", "iBDW", "leffen", "mang0", "wizzrobe", "zain">>

Tags == Range(TagOrder)

Lower(s) ==
    CASE s = "Armada" -> "armada"
      [] s = "Cody"   -> "cody"
      [] s = "Hbox"   -> "hbox"
      [] s = "LEFFEN" -> "leffen"
      [] s = "Leffen" -> "leffen"
      [] s = "Mango"  -> "mango"
      [] s = "Wizzy"  -> "wizzy"
      [] s = "Zain"   -> "zain"
      [] s = "iBDW"   -> "ibdw"
      [] OTHER        -> s

\* position of a tag in code-point order (upper case sorts before lower case)
TagRank(s) == CHOOSE i \in 1..Len(TagOrder) : TagOrder[i] = s

\* ------------------------------------------------------------------------
\* PlayerValue

PlayerValue(id_, tag, points, note, invitational, start, end) ==
    [id_ |-> id_, tag |-> tag, points |-> points, note |-> note,
     invitational_val |-> invitational, start_time |-> start,
     end_time |-> end]

is_within_timeframe(value, time) ==
    IF value.start_time /= None /\ time < value.start_time[1] THEN FALSE
    ELSE IF value.end_time /= None /\ time >= value.end_time[1] THEN FALSE
    ELSE TRUE

\* ------------------------------------------------------------------------
\* PlayerValueGroup

PlayerValueGroup(id_, tag, invitational_val, other_tags) ==
    [id_ |-> id_, tag |-> tag, invitational_val |-> invitational_val,
     values |-> <<>>,
     other_tags |-> [i \in 1..Len(other_tags) |-> Lower(other_tags[i])]]

\* list.sort(reverse=True, key=points) is stable: equal keys keep their
\* order.  Insert x behind every element whose points are >= x.points.
RECURSIVE InsertByPointsDesc(_, _)
InsertByPointsDesc(sorted, x) ==
    IF sorted = <<>> THEN <<x>>
    ELSE IF Head(sorted).points >= x.points
         THEN <<Head(sorted)>> \o InsertByPointsDesc(Tail(sorted), x)
         ELSE <<x>> \o sorted

RECURSIVE SortByPointsDesc(_)
SortByPointsDesc(s) ==
    IF s = <<>> THEN <<>>
    ELSE InsertByPointsDesc(SortByPointsDesc(SubSeq(s, 1, Len(s) - 1)),
                            s[Len(s)])

group_set_invitational_val(group, value) ==
    [group EXCEPT !.invitational_val = value,
                  !.values = [i \in 1..Len(group.values) |->
                      [group.values[i] EXCEPT !.invitational_val = value]]]

group_add_value_unsorted(group, points, note, start, end) ==
    [group EXCEPT !.values = Append(group.values,
        PlayerValue(group.id_, group.tag, points, note,
                    group.invitational_val, start, end))]

group_add_value_no_bonus(group, points, note, start, end) ==
    LET appended == Append(group.values,
            PlayerValue(group.id_, group.tag, points, note, 0, start, end))
    IN [group EXCEPT !.values = SortByPointsDesc(appended)]

group_add_value(group, points, note, start, end) ==
    LET appended == Append(group.values,
            PlayerValue(group.id_, group.tag, points, note,
                        group.invitational_val, start, end))
    IN [group EXCEPT !.values = SortByPointsDesc(appended)]

RECURSIVE FirstWithin(_, _)
FirstWithin(values, time) ==
    IF values = <<>> THEN None
    ELSE IF is_within_timeframe(Head(values), time) THEN Some(Head(values))
    ELSE FirstWithin(Tail(values), time)

group_retrieve_value(group, time) == FirstWithin(group.values, time)

match_tag(group, tag) ==
    \/ Lower(tag) = Lower(group.tag)
    \/ \E i \in 1..Len(group.other_tags) : group.other_tags[i] = Lower(tag)

\* ------------------------------------------------------------------------
\* The scored_players dict

HasKey(players, key) == \E i \in 1..Len(players) : players[i].id_ = key
KeyIndex(players, key) == CHOOSE i \in 1..Len(players) : players[i].id_ = key
Lookup(players, key) == players[KeyIndex(players, key)]

\* ------------------------------------------------------------------------
\* read_players.  A row of ultrank_players.csv is
\*   [num, player, points, note, start, end]   (num, start, end optional)
\* a row of ultrank_tags.csv is <<player, <<alternate tags>>>> and a row of
\* ultrank_invitational.csv is [num, player, additional].  Tags of the
\* alphabet carry no surrounding blanks, so str.strip() leaves them as is.

RowKey(num, player) == IF num = None THEN StrKey(player) ELSE IntKey(num[1])

\* ultrank_tags.csv: alt_tags dict and the tags added to the tag set
RECURSIVE AltTagsOf(_, _)
AltTagsOf(tagsFile, player) ==
    IF tagsFile = <<>> THEN <<>>
    ELSE LET rest == AltTagsOf(SubSeq(tagsFile, 1, Len(tagsFile) - 1), player)
             row  == tagsFile[Len(tagsFile)]
         IN  IF row[1] = player /\ row[2] /= <<>> THEN row[2] ELSE rest

AltTagSet(tagsFile) ==
    UNION {{Lower(tagsFile[i][2][j]) : j \in 1..Len(tagsFile[i][2])} :
              i \in 1..Len(tagsFile)}

\* body of the loop over ultrank_players.csv, on the players dict
players_after_row(players, tagsFile, row) ==
    LET key == RowKey(row.num, row.player)
        withGroup ==
            IF HasKey(players, key) THEN players
            ELSE Append(players, PlayerValueGroup(key, row.player, 0,
                                     AltTagsOf(tagsFile, row.player)))
        i == KeyIndex(withGroup, key)
    IN  [withGroup EXCEPT ![i] =
            group_add_value(withGroup[i], row.points, row.note,
                            row.start, row.end)]

tags_after_row(tags, row) == tags \cup {Lower(row.player)}

\* body of the loop over ultrank_invitational.csv
players_after_invit_row(players, row) ==
    LET key == RowKey(row.num, row.player)
    IN  IF HasKey(players, key)
        THEN [players EXCEPT ![KeyIndex(players, key)] =
                 group_set_invitational_val(@, row.additional)]
        ELSE players

RECURSIVE FoldPlayers(_, _)
FoldPlayers(tagsFile, rows) ==
    IF rows = <<>> THEN <<>>
    ELSE players_after_row(
             FoldPlayers(tagsFile, SubSeq(rows, 1, Len(rows) - 1)),
             tagsFile, rows[Len(rows)])

RECURSIVE FoldInvit(_, _)
FoldInvit(players, rows) ==
    IF rows = <<>> THEN players
    ELSE players_after_invit_row(
             FoldInvit(players, SubSeq(rows, 1, Len(rows) - 1)),
             rows[Len(rows)])

read_players_players(tagsFile, playersFile, invitFile) ==
    FoldInvit(FoldPlayers(tagsFile, playersFile), invitFile)

read_players_tags(tagsFile, playersFile) ==
    AltTagSet(tagsFile) \cup
    {Lower(playersFile[i].player) : i \in 1..Len(playersFile)}

\* ------------------------------------------------------------------------
\* RegionValue.  Geographic fields are strings, '' when the rule leaves the
\* level open; a postal code is a sequence of characters so that the slice
\* postcode[0:2] is computed and not assumed.

RegionValue(country_code, iso2, county, city, jp_postal, multiplier, entrant_floor, score_floor, note) ==
    [country_code |-> country_code, iso2 |-> iso2, county |-> county,
     city |-> city, jp_postal |-> jp_postal, multiplier |-> multiplier,
     entrant_floor |-> entrant_floor, score_floor |-> score_floor,
     note |-> note]

\* dict.get(key, default)
Get(dict, key, default) == IF key \in DOMAIN dict THEN dict[key] ELSE default

\* s[0:2]
Slice02(s) == SubSeq(s, 1, Min(2, Len(s)))

region_match_fallback_unmatched(self, addr) ==
    IF self.country_code = "" THEN 0
    ELSE IF Get(addr, "country_code", "") = self.country_code THEN 3
    ELSE 0

region_match(self, addr) ==
    IF self.country_code = "" THEN 1
    ELSE IF Get(addr, "country_code", "") = self.country_code
    THEN 2
         + (IF self.iso2 = "" THEN 1
            ELSE IF Get(addr, "ISO3166-2-lvl4", "") = self.iso2
                    \/ Get(addr, "ISO3166-2-lvl3", "") = self.iso2
            THEN 2 + (IF self.county = "" /\ self.city = "" THEN 1
                      ELSE IF self.county /= ""
                              /\ Get(addr, "county", "") = self.county THEN 2
                      ELSE IF self.city /= ""
                              /\ Get(addr, "city", "") = self.city THEN 2
                      ELSE 0)
            ELSE 0)
         + (IF self.country_code = "jp"
            THEN LET jp_postal == Slice02(Get(addr, "postcode", <<"X", "X">>))
                 IN  IF self.jp_postal = <<>> THEN 1
                     ELSE IF jp_postal = self.jp_postal THEN 2
                     ELSE 0
            ELSE 0)
    ELSE 0

\* RegionValue.__eq__ / __hash__: every field but the floors and the note
region_eq(a, b) ==
    /\ a.country_code = b.country_code /\ a.iso2 = b.iso2
    /\ a.county = b.county /\ a.city = b.city
    /\ a.jp_postal = b.jp_postal /\ a.multiplier = b.multiplier

\* read_regions: set.add keeps the element already present when an equal
\* one is added, so of the rows that compare equal the first one stays
read_regions(rows) ==
    {rows[i] : i \in {k \in 1..Len(rows) :
                        \A j \in 1..(k - 1) : ~region_eq(rows[j], rows[k])}}

\* the orders in which a set can be iterated
IterationOrders(S) ==
    {q \in [1..Cardinality(S) -> S] :
        \A i, j \in 1..Cardinality(S) : i /= j => q[i] /= q[j]}

\* calculate_tier, the loop over region_mults: <<best_match, best_region>>
RECURSIVE select_region_any_match(_, _)
select_region_any_match(regions, addr) ==
    IF regions = <<>> THEN <<0, None>>
    ELSE LET sofar  == select_region_any_match(
                           SubSeq(regions, 1, Len(regions) - 1), addr)
             region == regions[Len(regions)]
             match  == region_match(region, addr)
         IN  IF match > 0 THEN <<match, Some(region)>> ELSE sofar

RECURSIVE select_region(_, _)
select_region(regions, addr) ==
    IF regions = <<>> THEN <<0, None>>
    ELSE LET sofar  == select_region(
                           SubSeq(regions, 1, Len(regions) - 1), addr)
             region == regions[Len(regions)]
             match  == region_match(region, addr)
         IN  IF match > sofar[1] THEN <<match, Some(region)>> ELSE sofar

\* ------------------------------------------------------------------------
\* Entrant, and the entrant count of gather_entrant_counts

Entrant(id_num, tag) == [id_ |-> id_num, tag |-> tag]

count_entrants_every_dq(parts, dqs) ==
    Cardinality(parts) + Cardinality(DOMAIN dqs)

count_entrants(parts, dqs) ==
    LET participant_ids == {part.id_ : part \in parts}
        dq_only == {player_id \in DOMAIN dqs : player_id \notin participant_ids}
    IN  Cardinality(parts) + Cardinality(dq_only)

\* ------------------------------------------------------------------------
\* Phases and sets of an event, and get_dqs

Phase(id, name, state, isExhibition) ==
    [id |-> id, name |-> name, state |-> state, isExhibition |-> isExhibition]

check_phase_completed_any_phase(ps) ==
    \E i \in 1..Len(ps) : Get(ps[i], "state", "") = "COMPLETED"

check_phase_completed(ps) ==
    \E i \in 1..Len(ps) :
        /\ Get(ps[i], "state", "") = "COMPLETED"
        /\ ~Get(ps[i], "isExhibition", TRUE)

collect_phases(ps) == SelectSeq(ps, LAMBDA phase : ~phase.isExhibition)

\* a slot of a set: the entrant (its id in the event and its first player)
\* and the standing, None or the value of stats.score
Slot(entrant_id, player, standing) ==
    [entrant |-> [id |-> entrant_id, player |-> player],
     standing |-> standing]

SetData(winnerId, slot0, slot1) ==
    [winnerId |-> winnerId, slots |-> <<slot0, slot1>>]

\* dq_list after one more disqualification of the loser
record_dq(dqs, player_data_loser) ==
    LET player_id == player_data_loser.id_
    IN  [k \in DOMAIN dqs \cup {player_id} |->
            IF k /= player_id THEN dqs[k]
            ELSE IF player_id \in DOMAIN dqs
            THEN <<dqs[player_id][1], dqs[player_id][2] + 1>>
            ELSE <<player_data_loser, 1>>]

\* one pass of the loop of get_dqs; slots[1], slots[2] are slots 0 and 1
get_dqs_step(dqs, parts, set_data) ==
    IF set_data.winnerId = None
    THEN [dq_list |-> dqs, participants |-> parts, raised |-> None]
    ELSE LET loser == IF set_data.winnerId[1] = set_data.slots[1].entrant.id
                      THEN 2 ELSE 1
             player_data_0 == set_data.slots[1].entrant.player
             player_data_1 == set_data.slots[2].entrant.player
             player_data_loser ==
                 IF loser = 1 THEN player_data_0 ELSE player_data_1
         IN  IF /\ set_data.slots[1].standing = None
                /\ set_data.slots[2].standing = None
             THEN [dq_list |-> record_dq(dqs, player_data_loser),
                   participants |-> parts, raised |-> None]
             ELSE IF set_data.slots[loser].standing = None
             THEN \* None['stats']
                  [dq_list |-> dqs, participants |-> parts,
                   raised |-> Some("TypeError")]
             ELSE IF set_data.slots[loser].standing[1] = -1
             THEN [dq_list |-> record_dq(dqs, player_data_loser),
                   participants |-> parts, raised |-> None]
             ELSE [dq_list |-> dqs,
                   participants |-> parts \cup {player_data_0, player_data_1},
                   raised |-> None]

\* ------------------------------------------------------------------------
\* The value objects of a result

CountedValue(player_value, total_points, alt_tag) ==
    [player_value |-> player_value, points |-> total_points,
     alt_tag |-> alt_tag, tag |-> player_value.tag, id_ |-> player_value.id_]

DisqualificationValue(value, dqs) == [value |-> value, dqs |-> dqs]

PotentialMatchWithDqs(tag, id_, points, note, actual_tag, dqs) ==
    [tag |-> tag, id_ |-> id_, points |-> points, note |-> note,
     actual_tag |-> IF actual_tag /= "" THEN actual_tag ELSE tag,
     dqs |-> dqs]

\* ------------------------------------------------------------------------
\* Iteration and sorting.  A set or dict is walked in one fixed order; the
\* order only decides how entries with equal sort keys are listed.

RECURSIVE SetToSeq(_)
SetToSeq(S) ==
    IF S = {} THEN <<>>
    ELSE LET x == CHOOSE y \in S : TRUE IN <<x>> \o SetToSeq(S \ {x})

\* the entrants of S with lo <= id_ <= hi by ascending id, found by halving
\* the id range so that a roster of many entrants needs no deep recursion
RECURSIVE EntrantsById(_, _, _)
EntrantsById(S, lo, hi) ==
    IF S = {} THEN <<>>
    ELSE IF lo >= hi THEN SetToSeq(S)
    ELSE LET mid == (lo + hi) \div 2
         IN  EntrantsById({x \in S : x.id_ <= mid}, lo, mid)
                 \o EntrantsById({x \in S : x.id_ > mid}, mid + 1, hi)

EntrantSeq(S) ==
    IF S = {} THEN <<>>
    ELSE EntrantsById(S, CHOOSE a \in {x.id_ : x \in S} :
                             \A b \in {x.id_ : x \in S} : a <= b,
                         CHOOSE a \in {x.id_ : x \in S} :
                             \A b \in {x.id_ : x \in S} : a >= b)

RECURSIVE IntsAscending(_)
IntsAscending(S) ==
    IF S = {} THEN <<>>
    ELSE LET x == CHOOSE y \in S : \A z \in S : y <= z
         IN  <<x>> \o IntsAscending(S \ {x})

\* sort keys are pairs of integers, compared as Python compares tuples
KeyLE(a, b) == a[1] < b[1] \/ (a[1] = b[1] /\ a[2] <= b[2])

\* list.sort is stable, also with reverse=True.  Entries are <<key, item>>.
RECURSIVE InsertAscending(_, _)
InsertAscending(sorted, x) ==
    IF sorted = <<>> THEN <<x>>
    ELSE IF KeyLE(Head(sorted)[1], x[1])
         THEN <<Head(sorted)>> \o InsertAscending(Tail(sorted), x)
         ELSE <<x>> \o sorted

RECURSIVE InsertDescending(_, _)
InsertDescending(sorted, x) ==
    IF sorted = <<>> THEN <<x>>
    ELSE IF KeyLE(x[1], Head(sorted)[1])
         THEN <<Head(sorted)>> \o InsertDescending(Tail(sorted), x)
         ELSE <<x>> \o sorted

RECURSIVE SortKeyed(_, _)
SortKeyed(keyed, reverse) ==
    IF keyed = <<>> THEN <<>>
    ELSE LET front == SortKeyed(SubSeq(keyed, 1, Len(keyed) - 1), reverse)
             x     == keyed[Len(keyed)]
         IN  IF reverse THEN InsertDescending(front, x)
             ELSE InsertAscending(front, x)

Items(keyed) == [i \in 1..Len(keyed) |-> keyed[i][2]]

sort_valued(values) ==
    Items(SortKeyed([i \in 1..Len(values) |->
                        <<<<values[i].points, 0>>, values[i]>>], TRUE))

sort_dqs(dqs) ==
    Items(SortKeyed([i \in 1..Len(dqs) |->
                        <<<<dqs[i].dqs, dqs[i].value.points>>, dqs[i]>>],
                    TRUE))

sort_potential(potential) ==
    Items(SortKeyed([i \in 1..Len(potential) |->
                        <<<<potential[i].dqs, TagRank(potential[i].tag)>>,
                          potential[i]>>], FALSE))

\* ------------------------------------------------------------------------
\* Tournament.calculate_tier

counted_points_no_bonus(player_value, invitational) == player_value.points

counted_points(player_value, invitational) ==
    player_value.points
        + (IF invitational THEN player_value.invitational_val ELSE 0)

\* the loop over scored_players.values() for an entrant matched by tag only
RECURSIVE tag_matches(_, _, _, _, _)
tag_matches(players, participant, num_dqs, time, invitational) ==
    IF players = <<>> THEN <<>>
    ELSE LET front == tag_matches(SubSeq(players, 1, Len(players) - 1),
                                  participant, num_dqs, time, invitational)
             player_value_group == players[Len(players)]
             player_value == group_retrieve_value(player_value_group, time)
         IN  IF match_tag(player_value_group, participant.tag)
                /\ player_value /= None
             THEN Append(front, PotentialMatchWithDqs(
                      participant.tag, participant.id_,
                      counted_points(player_value[1], invitational),
                      player_value[1].note, player_value[1].tag, num_dqs))
             ELSE front

participant_step_no_dq_skip(acc, participant, players, tags, dqs, time, invitational) ==
    IF HasKey(players, IntKey(participant.id_))
    THEN LET player_value ==
                 group_retrieve_value(
                     Lookup(players, IntKey(participant.id_)), time)
         IN  IF player_value /= None
             THEN LET score == counted_points(player_value[1], invitational)
                  IN  [acc EXCEPT
                         !.total_score = @ + score,
                         !.valued_participants = Append(@,
                             CountedValue(player_value[1], score,
                                          participant.tag))]
             ELSE acc
    ELSE IF participant.id_ \notin DOMAIN dqs
            /\ Lower(participant.tag) \in tags
    THEN [acc EXCEPT !.potential_matches =
             @ \o tag_matches(players, participant, 0, time, invitational)]
    ELSE acc

\* one pass of the loop over self.participants
participant_step(acc, participant, players, tags, dqs, time, invitational) ==
    IF participant.id_ \in DOMAIN dqs THEN acc
    ELSE IF HasKey(players, IntKey(participant.id_))
    THEN LET player_value ==
                 group_retrieve_value(
                     Lookup(players, IntKey(participant.id_)), time)
         IN  IF player_value /= None
             THEN LET score == counted_points(player_value[1], invitational)
                  IN  [acc EXCEPT
                         !.total_score = @ + score,
                         !.valued_participants = Append(@,
                             CountedValue(player_value[1], score,
                                          participant.tag))]
             ELSE acc
    ELSE IF Lower(participant.tag) \in tags
    THEN [acc EXCEPT !.potential_matches =
             @ \o tag_matches(players, participant, 0, time, invitational)]
    ELSE acc

\* the accumulators of calculate_tier: total_score and the three lists
Accumulated(total_score, valued, potential, with_dqs) ==
    [total_score |-> total_score, valued_participants |-> valued,
     potential_matches |-> potential, participants_with_dqs |-> with_dqs]

\* b's passes run after a's: scores add up, lists are appended in order
Joined(a, b) ==
    Accumulated(a.total_score + b.total_score,
                a.valued_participants \o b.valued_participants,
                a.potential_matches \o b.potential_matches,
                a.participants_with_dqs \o b.participants_with_dqs)

\* the loop over self.participants.  A pass only adds to total_score and
\* appends to the lists, so the passes over the two halves of the list are
\* run on their own and joined; the recursion stays shallow for long rosters.
RECURSIVE participants_loop(_, _, _, _, _, _)
participants_loop(parts, players, tags, dqs, time, invitational) ==
    IF parts = <<>> THEN Accumulated(0, <<>>, <<>>, <<>>)
    ELSE IF Len(parts) = 1
    THEN participant_step(Accumulated(0, <<>>, <<>>, <<>>), parts[1],
                          players, tags, dqs, time, invitational)
    ELSE LET half == Len(parts) \div 2
         IN  Joined(participants_loop(SubSeq(parts, 1, half), players, tags,
                                      dqs, time, invitational),
                    participants_loop(SubSeq(parts, half + 1, Len(parts)),
                                      players, tags, dqs, time, invitational))

dq_step_scored(acc, entry, players, tags, time, invitational) ==
    LET participant == entry[1]
        num_dqs     == entry[2]
    IN  IF HasKey(players, IntKey(participant.id_))
        THEN LET player_value ==
                     group_retrieve_value(
                         Lookup(players, IntKey(participant.id_)), time)
             IN  IF player_value /= None
                 THEN LET score ==
                              counted_points(player_value[1], invitational)
                      IN  [acc EXCEPT
                              !.total_score = @ + score,
                              !.participants_with_dqs = Append(@,
                              DisqualificationValue(
                                  CountedValue(player_value[1], score,
                                               participant.tag), num_dqs))]
                 ELSE acc
        ELSE IF Lower(participant.tag) \in tags
        THEN [acc EXCEPT !.potential_matches =
                 @ \o tag_matches(players, participant, num_dqs, time,
                                  invitational)]
        ELSE acc

\* one pass of the loop over self.dq_list.values()
dq_step(acc, entry, players, tags, time, invitational) ==
    LET participant == entry[1]
        num_dqs     == entry[2]
    IN  IF HasKey(players, IntKey(participant.id_))
        THEN LET player_value ==
                     group_retrieve_value(
                         Lookup(players, IntKey(participant.id_)), time)
             IN  IF player_value /= None
                 THEN LET score ==
                              counted_points(player_value[1], invitational)
                      IN  [acc EXCEPT !.participants_with_dqs = Append(@,
                              DisqualificationValue(
                                  CountedValue(player_value[1], score,
                                               participant.tag), num_dqs))]
                 ELSE acc
        ELSE IF Lower(participant.tag) \in tags
        THEN [acc EXCEPT !.potential_matches =
                 @ \o tag_matches(players, participant, num_dqs, time,
                                  invitational)]
        ELSE acc

RECURSIVE dq_loop(_, _, _, _, _, _)
dq_loop(acc, entries, players, tags, time, invitational) ==
    IF entries = <<>> THEN acc
    ELSE dq_loop(dq_step(acc, Head(entries), players, tags, time,
                         invitational),
                 Tail(entries), players, tags, time, invitational)

TournamentTieringResult(oid, score, entrants, region, values, dqs, potential, invitational, phase_names, dq_count) ==
    [oid |-> oid, score |-> score, values |-> values, dqs |-> dqs,
     potential |-> potential, entrants |-> entrants, region |-> region,
     is_invitational |-> invitational, dq_count |-> dq_count,
     phases |-> phase_names, max_score |-> None]

\* the body of calculate_tier behind the cache test, for a rule that was
\* found: the result object that line 511 constructs
compute_tier(oid, regions, addr, parts, dqs, entrants, players, tags, time, invitational, used, dq_count) ==
    LET best_region == select_region(regions, addr)[2][1]
        start == Accumulated(entrants * best_region.multiplier,
                             <<>>, <<>>, <<>>)
        after_participants ==
            Joined(start, participants_loop(EntrantSeq(parts), players, tags,
                                            dqs, time, invitational))
        dq_values == [i \in 1..Cardinality(DOMAIN dqs) |->
                         dqs[IntsAscending(DOMAIN dqs)[i]]]
        done == dq_loop(after_participants, dq_values, players, tags, time,
                        invitational)
    IN  TournamentTieringResult(oid, done.total_score, entrants, best_region,
            sort_valued(done.valued_participants),
            sort_dqs(done.participants_with_dqs),
            sort_potential(done.potential_matches), invitational,
            [i \in 1..Len(used) |-> used[i].name], dq_count)

\* ------------------------------------------------------------------------
\* TournamentTieringResult

NUM_PLAYERS_FLOOR == 2

potential_player_scores_first_candidate(potential) ==
    [k \in {potential[i].id_ : i \in 1..Len(potential)} |->
        potential[CHOOSE i \in 1..Len(potential) :
                      /\ potential[i].id_ = k
                      /\ \A j \in 1..(i - 1) : potential[j].id_ /= k].points]

\* potential_player_scores: entrant id -> best points of its candidates
RECURSIVE potential_player_scores(_)
potential_player_scores(potential) ==
    IF potential = <<>> THEN <<>>
    ELSE LET d   == potential_player_scores(
                        SubSeq(potential, 1, Len(potential) - 1))
             pot == potential[Len(potential)]
         IN  [k \in DOMAIN d \cup {pot.id_} |->
                 IF k = pot.id_ THEN Max(pot.points, Get(d, pot.id_, 0))
                 ELSE d[k]]

dq_scores_dropped(dqs) == <<>>

\* dq_scores: registry id -> points of its (last listed) DQ'd value
RECURSIVE dq_scores(_)
dq_scores(dqs) ==
    IF dqs = <<>> THEN <<>>
    ELSE LET d  == dq_scores(SubSeq(dqs, 1, Len(dqs) - 1))
             dq == dqs[Len(dqs)]
         IN  [k \in DOMAIN d \cup {dq.value.player_value.id_} |->
                 IF k = dq.value.player_value.id_ THEN dq.value.points
                 ELSE d[k]]

RECURSIVE SumValues(_)
SumValues(d) ==
    IF DOMAIN d = {} THEN 0
    ELSE LET k == CHOOSE x \in DOMAIN d : TRUE
         IN  d[k] + SumValues([x \in DOMAIN d \ {k} |-> d[x]])

potential_score_without_matches(result) ==
    result.score + SumValues(dq_scores(result.dqs))

\* what max_potential_score computes when nothing is memoised
potential_score(result) ==
    result.score + SumValues(potential_player_scores(result.potential))
                 + SumValues(dq_scores(result.dqs))

max_potential_score(result) ==
    IF result.max_score /= None THEN result.max_score[1]
    ELSE potential_score(result)

should_count_strict_any_identity(result) ==
    \/ result.entrants >= result.region.entrant_floor
    \/ /\ result.score >= result.region.score_floor
       /\ Len(result.values) + Len(result.potential) + Len(result.dqs)
              >= NUM_PLAYERS_FLOOR

should_count_strict(result) ==
    \/ result.entrants >= result.region.entrant_floor
    \/ /\ result.score >= result.region.score_floor
       /\ Len(result.values) >= NUM_PLAYERS_FLOOR

should_count_unvalued_only(result) ==
    \/ result.entrants >= result.region.entrant_floor
    \/ /\ max_potential_score(result) >= result.region.score_floor
       /\ Len(result.potential) + Len(result.dqs) >= NUM_PLAYERS_FLOOR

should_count(result) ==
    \/ result.entrants >= result.region.entrant_floor
    \/ /\ max_potential_score(result) >= result.region.score_floor
       /\ Len(result.values) + Len(result.potential) + Len(result.dqs)
              >= NUM_PLAYERS_FLOOR

\* ------------------------------------------------------------------------
\* Bounds and input universes

MaxDate == 2          \* event dates and window bounds are days 1..MaxDate
MaxValues == 3        \* rows read into the registry under SpecRegistry
MaxInteresting == 3   \* entrants of a tournament known to the registry
MaxDqPlayers == 2     \* disqualified players of a tournament
MaxRules == 3         \* rows of ultrank_regions.csv under SpecRegions
MaxSets == 2          \* completed sets of an event under SpecEvent
MaxSlugs == 3         \* length of the list given to bulk_score
MaxPages == 4         \* totalPages of a paginated query under SpecFetch

Row(num, player, points, note, start, end) ==
    [num |-> num, player |-> player, points |-> points, note |-> note,
     start |-> start, end |-> end]

\* ultrank_tags.csv, ultrank_players.csv and ultrank_invitational.csv of the
\* tournaments checked under Spec and SpecRegions
TagsFile == << <<"Wizzy", <<"wizzrobe">>>>, <<"Armada", <<"wizzrobe">>>>,
               <<"Cody", <<"iBDW">>>> >>

PlayersFile ==
    << Row(Some(1), "Mango", 40, "top 50", None, None),
       Row(Some(2), "Zain", 80, "top 10", Some(2), None),
       Row(Some(1), "Mango", 100, "top 5", Some(2), None),
       Row(Some(3), "Cody", 50, "top 20", None, Some(3)),
       Row(Some(4), "Hbox", 90, "top 10", None, None),
       Row(None, "Leffen", 60, "top 20", None, None),
       Row(Some(5), "Wizzy", 0, "unranked", None, None),
       Row(Some(6), "Armada", 30, "legacy", None, None) >>

InvitFile == << [num |-> Some(1), player |-> "Mango", additional |-> 10],
                [num |-> Some(4), player |-> "Hbox", additional |-> 5],
                [num |-> None, player |-> "Leffen", additional |-> 5] >>

\* rows offered to the registry under SpecRegistry
RegistryRows ==
    {Row(Some(1), "Mango", pts, "note", st, en) :
        pts \in {50, 100}, st \in {None, Some(2)}, en \in {None, Some(3)}}
    \cup {Row(None, "Leffen", 60, "note", None, None)}

RegistryInvitRows ==
    {[num |-> Some(1), player |-> "Mango", additional |-> 10],
     [num |-> Some(1), player |-> "Mango", additional |-> 20],
     [num |-> None, player |-> "Leffen", additional |-> 5]}

\* entrants whose id or tag the registry knows
EntrantUniverse ==
    {Entrant(1, "Mango"), Entrant(1, "mang0"), Entrant(2, "Zain"),
     Entrant(3, "Cody"), Entrant(8, "wizzrobe"), Entrant(9, "LEFFEN"),
     Entrant(10, "Wizzy")}

\* n entrants unknown to the registry
Fillers(n) == {Entrant(100 + i, "anon") : i \in 1..n}
FillerCounts == {38, 47}

\* rosters of the tournaments checked under Spec: a few known entrants among
\* unknown ones, and one event of 70 unknown entrants
Rosters ==
    {known \cup Fillers(n) :
        known \in {K \in SUBSET EntrantUniverse :
                      Cardinality(K) <= MaxInteresting},
        n \in FillerCounts}
    \cup {Fillers(70)}

\* disqualifications: <<Entrant of the first DQ seen, number of DQs>>
DqUniverse == {<<Entrant(1, "Mango"), 1>>, <<Entrant(4, "Hbox"), 2>>,
               <<Entrant(9, "LEFFEN"), 1>>}

DqLists ==
    {[id \in {c[1].id_ : c \in chosen} |->
         CHOOSE c \in chosen : c[1].id_ = id] :
        chosen \in {C \in SUBSET DqUniverse : Cardinality(C) <= MaxDqPlayers}}

\* rows of ultrank_regions.csv
US1 == RegionValue("us", "", "", "", <<>>, 1, 64, 250, "USA")
US2 == RegionValue("us", "", "", "", <<>>, 2, 48, 100, "USA x2")

TierRegionFiles == {<<US1, US2>>}

\* Tournament(location=False).address
NoLocationAddress == [country_code |-> "us"]

NoCall == <<"none", None, None>>

MainDone       == Phase(1, "Bracket", "COMPLETED", FALSE)
MainActive     == Phase(2, "Top 8", "ACTIVE", FALSE)
ExhibitionDone == Phase(3, "Amateurs", "COMPLETED", TRUE)

\* ------------------------------------------------------------------------
\* Initial states

\* a Tournament whose constructor has returned
Constructed ==
    /\ event_phases = <<MainDone>>
    /\ pc = "done"
    /\ phases = collect_phases(event_phases)
    /\ total_dqs = -1
    /\ sets = <<>>
    /\ cursor = 0
    /\ attempt = 0
    /\ has_address = TRUE

\* no paginated fetch is running
FetchIdle ==
    /\ source = [totalPages |-> 1, broken |-> 0]
    /\ fetch = None
    /\ fetch_pc = "returned"
    /\ page = 1
    /\ requested = <<>>
    /\ collected = <<>>

\* bulk_score is not running
BulkIdle ==
    /\ slugs = <<>>
    /\ pending = <<>>
    /\ results = <<>>

TierIdle ==
    /\ tier = None
    /\ built = 0
    /\ raised = None
    /\ ret = NoCall

\* reference data loaded, one Tournament constructed with location=False
Init ==
    /\ scored_players = read_players_players(TagsFile, PlayersFile, InvitFile)
    /\ scored_tags = read_players_tags(TagsFile, PlayersFile)
    /\ \E file \in TierRegionFiles :
           region_mults \in IterationOrders(read_regions(file))
    /\ participants \in Rosters
    /\ dq_list \in DqLists
    /\ total_entrants = count_entrants(participants, dq_list)
    /\ address = NoLocationAddress
    /\ start_time \in 1..MaxDate
    /\ is_invitational \in BOOLEAN
    /\ Constructed
    /\ TierIdle
    /\ BulkIdle
    /\ FetchIdle

\* ------------------------------------------------------------------------
\* Actions on a Tournament and its result

calculate_tier_uncached ==
    /\ pc = "done"
    /\ has_address
    /\ select_region(region_mults, address)[2] /= None
    /\ tier' = Some(compute_tier(built + 1, region_mults, address,
                        participants, dq_list, total_entrants,
                        scored_players, scored_tags, start_time,
                        is_invitational, phases, total_dqs))
    /\ built' = built + 1
    /\ ret' = <<"calculate_tier", Some(built + 1), None>>
    /\ UNCHANGED <<registryVars, region_mults, tournamentVars, raised>>

calculate_tier ==
    /\ pc = "done"
    /\ IF tier /= None
       THEN /\ ret' = <<"calculate_tier", Some(tier[1].oid), None>>
            /\ UNCHANGED <<tier, built, raised>>
       ELSE IF ~has_address \/ select_region(region_mults, address)[2] = None
       THEN \* self.address that was never set, or
            \* best_region.multiplier with best_region None
            /\ raised' = Some("AttributeError")
            /\ ret' = <<"calculate_tier", None, None>>
            /\ UNCHANGED <<tier, built>>
       ELSE /\ tier' = Some(compute_tier(built + 1, region_mults, address,
                                participants, dq_list, total_entrants,
                                scored_players, scored_tags, start_time,
                                is_invitational, phases, total_dqs))
            /\ built' = built + 1
            /\ ret' = <<"calculate_tier", Some(built + 1), None>>
            /\ UNCHANGED raised
    /\ UNCHANGED <<registryVars, region_mults, tournamentVars>>

call_max_potential_score ==
    /\ tier /= None
    /\ tier' = Some([tier[1] EXCEPT
                        !.max_score = Some(max_potential_score(tier[1]))])
    /\ ret' = <<"max_potential_score", Some(max_potential_score(tier[1])),
                None>>
    /\ UNCHANGED <<registryVars, region_mults, tournamentVars, built, raised>>

call_should_count_strict ==
    /\ tier /= None
    /\ ret' = <<"should_count_strict", Some(should_count_strict(tier[1])),
                None>>
    /\ UNCHANGED <<registryVars, region_mults, tournamentVars, tier, built,
                   raised>>

\* `or` evaluates max_potential_score only when the entrant floor is missed
call_should_count ==
    /\ tier /= None
    /\ tier' = IF tier[1].entrants >= tier[1].region.entrant_floor THEN tier
               ELSE Some([tier[1] EXCEPT
                        !.max_score = Some(max_potential_score(tier[1]))])
    /\ ret' = <<"should_count", Some(should_count(tier[1])), None>>
    /\ UNCHANGED <<registryVars, region_mults, tournamentVars, built, raised>>

Next ==
    \/ calculate_tier
    \/ call_max_potential_score
    \/ call_should_count_strict
    \/ call_should_count

Spec == Init /\ [][Next]_vars

\* ------------------------------------------------------------------------
\* SpecRegistry: the player value registry while it is being filled

RegistryTagsFile == << <<"Mango", <<"mang0">>>> >>

RECURSIVE TotalValues(_)
TotalValues(players) ==
    IF players = <<>> THEN 0
    ELSE Len(Head(players).values) + TotalValues(Tail(players))

InitRegistry ==
    /\ scored_players = <<>>
    /\ scored_tags = AltTagSet(RegistryTagsFile)
    /\ region_mults = <<>>
    /\ participants = {}
    /\ dq_list = <<>>
    /\ total_entrants = 0
    /\ address = NoLocationAddress
    /\ start_time \in 1..(MaxDate + 1)
    /\ is_invitational = FALSE
    /\ Constructed
    /\ TierIdle
    /\ BulkIdle
    /\ FetchIdle

\* one row of ultrank_players.csv: the group is created when the id is new,
\* then add_value appends and sorts
read_players_row ==
    \E row \in RegistryRows :
        /\ TotalValues(scored_players) < MaxValues
        /\ scored_players' =
               players_after_row(scored_players, RegistryTagsFile, row)
        /\ scored_tags' = tags_after_row(scored_tags, row)
        /\ ret' = <<"add_value", None, Some(RowKey(row.num, row.player))>>
        /\ UNCHANGED <<region_mults, tournamentVars, tier, built, raised>>

\* one row of ultrank_invitational.csv: set_invitational_val on a known id,
\* nothing for an id the players file did not have
read_invitational_row ==
    \E row \in RegistryInvitRows :
        /\ scored_players' = players_after_invit_row(scored_players, row)
        /\ ret' = IF HasKey(scored_players, RowKey(row.num, row.player))
                  THEN <<"set_invitational_val", Some(row.additional),
                         Some(RowKey(row.num, row.player))>>
                  ELSE <<"read_invitational_row", None,
                         Some(RowKey(row.num, row.player))>>
        /\ UNCHANGED <<scored_tags, region_mults, tournamentVars, tier, built,
                       raised>>

\* retrieve_value of a group for a tournament that starts at start_time
call_retrieve_value ==
    \E i \in 1..Len(scored_players) :
        /\ ret' = <<"retrieve_value",
                    Some(group_retrieve_value(scored_players[i], start_time)),
                    Some(scored_players[i].id_)>>
        /\ UNCHANGED <<registryVars, region_mults, tournamentVars, tier,
                       built, raised>>

NextRegistry ==
    \/ read_players_row
    \/ read_invitational_row
    \/ call_retrieve_value

SpecRegistry == InitRegistry /\ [][NextRegistry]_vars

\* ------------------------------------------------------------------------
\* SpecRegions: tournaments at geocoded addresses under varied rule tables

ALL  == RegionValue("", "", "", "", <<>>, 1, 64, 250, "All Other Regions")
CA   == RegionValue("us", "US-CA", "", "", <<>>, 3, 64, 250, "California")
LA   == RegionValue("us", "US-CA", "", "LA", <<>>, 4, 64, 250, "Los Angeles")
OC   == RegionValue("us", "US-CA", "Orange", "", <<>>, 5, 64, 250, "Orange Co")
CITY == RegionValue("us", "", "", "LA", <<>>, 6, 64, 250, "LA, no state")
JP   == RegionValue("jp", "", "", "", <<>>, 2, 48, 100, "Japan")
JP10 == RegionValue("jp", "", "", "", <<"1", "0">>, 3, 48, 100, "Tokyo post")
JP13 == RegionValue("jp", "JP-13", "", "", <<>>, 4, 48, 100, "Tokyo-to")
FR75 == RegionValue("fr", "FR-75", "", "", <<>>, 2, 48, 100, "Paris")

RegionUniverse == <<ALL, US1, CA, LA, OC, CITY, JP, JP10, JP13, FR75>>

\* the files made of at most MaxRules rows of the universe, in its order
RECURSIVE Pick(_, _)
Pick(rows, chosen) ==
    IF rows = <<>> THEN <<>>
    ELSE LET front == Pick(SubSeq(rows, 1, Len(rows) - 1), chosen)
         IN  IF Len(rows) \in chosen THEN Append(front, rows[Len(rows)])
             ELSE front

RegionFiles ==
    {Pick(RegionUniverse, chosen) :
        chosen \in {C \in SUBSET (1..Len(RegionUniverse)) :
                        Cardinality(C) <= MaxRules}}

Addresses ==
    { [country_code |-> "us", county |-> "LA County", city |-> "LA",
       postcode |-> <<"9", "0", "0", "1", "2">>]
          @@ ("ISO3166-2-lvl4" :> "US-CA"),
      [country_code |-> "us", county |-> "Orange", city |-> "Irvine"]
          @@ ("ISO3166-2-lvl4" :> "US-CA"),
      [country_code |-> "us", city |-> "NYC"]
          @@ ("ISO3166-2-lvl4" :> "US-NY"),
      [country_code |-> "jp", city |-> "Tokyo",
       postcode |-> <<"1", "0", "0", "-", "0", "0", "0", "1">>]
          @@ ("ISO3166-2-lvl4" :> "JP-13"),
      [country_code |-> "jp", city |-> "Osaka"]
          @@ ("ISO3166-2-lvl4" :> "JP-27"),
      [country_code |-> "fr", city |-> "Paris"]
          @@ ("ISO3166-2-lvl4" :> "FR-IDF") @@ ("ISO3166-2-lvl3" :> "FR-75"),
      [city |-> "Atlantis"] }

InitRegions ==
    /\ scored_players = read_players_players(TagsFile, PlayersFile, InvitFile)
    /\ scored_tags = read_players_tags(TagsFile, PlayersFile)
    /\ \E file \in RegionFiles :
           region_mults \in IterationOrders(read_regions(file))
    /\ participants = {Entrant(1, "Mango"), Entrant(9, "LEFFEN")}
    /\ dq_list = <<>>
    /\ total_entrants = count_entrants(participants, dq_list)
    /\ address \in Addresses
    /\ start_time = 1
    /\ is_invitational = FALSE
    /\ Constructed
    /\ TierIdle
    /\ BulkIdle
    /\ FetchIdle

SpecRegions == InitRegions /\ [][Next]_vars

\* ------------------------------------------------------------------------
\* SpecEvent: Tournament(event_slug) from the answers of the API and of the
\* geocoder, one step per request and per set, then calculate_tier

EventPhaseLists ==
    {<<>>, <<MainDone>>, <<MainActive>>, <<ExhibitionDone>>,
     <<MainActive, ExhibitionDone>>, <<ExhibitionDone, MainDone>>}

Mango  == Entrant(1, "Mango")
Zain   == Entrant(2, "Zain")
Anon   == Entrant(101, "anon")

\* the completed sets an event may hold
SetUniverse ==
    { \* no winner recorded
      SetData(None, Slot(11, Mango, Some(2)), Slot(12, Zain, Some(1))),
      \* Mango beats Zain 2-0
      SetData(Some(11), Slot(11, Mango, Some(2)), Slot(12, Zain, Some(0))),
      \* Anon (slot 0) loses 0-2 to Zain (slot 1)
      SetData(Some(12), Slot(13, Anon, Some(0)), Slot(12, Zain, Some(2))),
      \* LEFFEN loses to Mango, no standing on either slot
      SetData(Some(11), Slot(11, Mango, None),
              Slot(14, Entrant(9, "LEFFEN"), None)),
      \* the same player 9, shown as Leffen, loses to Anon with score -1
      SetData(Some(13), Slot(14, Entrant(9, "Leffen"), Some(-1)),
              Slot(13, Anon, Some(0))),
      \* Mango loses to Zain with score -1
      SetData(Some(12), Slot(11, Mango, Some(-1)), Slot(12, Zain, Some(0))),
      \* Anon loses to Zain; only the winner's slot has a standing
      SetData(Some(12), Slot(12, Zain, Some(2)), Slot(13, Anon, None)) }

SetLists == UNION {[1..n -> SetUniverse] : n \in 0..MaxSets}

\* rosters get_entrants may return
EventRosters == {{}, {Mango, Zain}, {Mango, Zain, Anon, Entrant(9, "LEFFEN")}}

EventAddresses ==
    {[country_code |-> "us", city |-> "LA"] @@ ("ISO3166-2-lvl4" :> "US-CA"),
     [city |-> "Atlantis"]}

EventRegionFiles == {<<ALL, US1>>}

InitEvent ==
    /\ scored_players = read_players_players(TagsFile, PlayersFile, InvitFile)
    /\ scored_tags = read_players_tags(TagsFile, PlayersFile)
    /\ \E file \in EventRegionFiles :
           region_mults \in IterationOrders(read_regions(file))
    /\ event_phases \in EventPhaseLists
    /\ is_invitational = FALSE
    /\ pc = "gather_entrant_counts"
    \* attributes the constructor has not set yet
    /\ participants = {}
    /\ dq_list = <<>>
    /\ total_entrants = 0
    /\ address = <<>>
    /\ has_address = FALSE
    /\ start_time = 0
    /\ phases = <<>>
    /\ total_dqs = 0
    /\ sets = <<>>
    /\ cursor = 0
    /\ attempt = 0
    /\ TierIdle
    /\ BulkIdle
    /\ FetchIdle

registryAndTier == <<registryVars, region_mults, tier, built, ret,
                     event_phases, is_invitational, bulkVars, fetchVars>>

\* gather_entrant_counts up to the loop of get_dqs, or to its end when no
\* main phase is completed
gather_entrant_counts ==
    /\ pc = "gather_entrant_counts"
    /\ IF check_phase_completed(event_phases)
       THEN /\ phases' = collect_phases(event_phases)
            /\ sets' \in SetLists
            /\ cursor' = 0
            /\ dq_list' = <<>>
            /\ participants' = {}
            /\ total_dqs' = -1
            /\ pc' = "get_dqs"
            /\ UNCHANGED total_entrants
       ELSE /\ participants' \in EventRosters
            /\ dq_list' = <<>>
            /\ total_entrants' = Cardinality(participants')
            /\ phases' = <<>>
            /\ total_dqs' = -1
            /\ pc' = "gather_location_info"
            /\ UNCHANGED <<sets, cursor>>
    /\ UNCHANGED <<registryAndTier, address, has_address, start_time,
                   attempt, raised>>

\* get_dqs: the loop takes the next set
get_dqs_set ==
    /\ pc = "get_dqs"
    /\ cursor < Len(sets)
    /\ LET after == get_dqs_step(dq_list, participants, sets[cursor + 1])
       IN  /\ dq_list' = after.dq_list
           /\ participants' = after.participants
           /\ raised' = after.raised
           /\ pc' = IF after.raised = None THEN "get_dqs" ELSE "raised"
    /\ cursor' = cursor + 1
    /\ UNCHANGED <<registryAndTier, total_entrants, address, has_address,
                   start_time, phases, total_dqs, sets, attempt>>

\* total_dqs keeps the number of DQ-only players
count_entrants_of_sets_keeping_dqs ==
    /\ pc = "get_dqs"
    /\ cursor = Len(sets)
    /\ total_entrants' = count_entrants(participants, dq_list)
    /\ total_dqs' = count_entrants(participants, dq_list)
                        - Cardinality(participants)
    /\ pc' = "gather_location_info"
    /\ UNCHANGED <<registryAndTier, participants, dq_list, address,
                   has_address, start_time, phases, sets, cursor, attempt,
                   raised>>

\* get_dqs returns; gather_entrant_counts counts and resets total_dqs
count_entrants_of_sets ==
    /\ pc = "get_dqs"
    /\ cursor = Len(sets)
    /\ total_entrants' = count_entrants(participants, dq_list)
    /\ total_dqs' = -1
    /\ pc' = "gather_location_info"
    /\ UNCHANGED <<registryAndTier, participants, dq_list, address,
                   has_address, start_time, phases, sets, cursor, attempt,
                   raised>>

\* gather_location_info: one pass of `for i in range(5)`
gather_location_info ==
    /\ pc = "gather_location_info"
    /\ attempt < 5
    /\ \/ /\ address' \in EventAddresses
          /\ has_address' = TRUE
          /\ pc' = "retrieve_start_time"
          /\ UNCHANGED attempt
       \/ \* geo.reverse raised: printed and passed over
          /\ attempt' = attempt + 1
          /\ pc' = IF attempt + 1 < 5 THEN "gather_location_info"
                   ELSE "retrieve_start_time"
          /\ UNCHANGED <<address, has_address>>
    /\ UNCHANGED <<registryAndTier, participants, dq_list, total_entrants,
                   start_time, phases, total_dqs, sets, cursor, raised>>

retrieve_start_time ==
    /\ pc = "retrieve_start_time"
    /\ start_time' \in 1..MaxDate
    /\ pc' = "done"
    /\ UNCHANGED <<registryAndTier, participants, dq_list, total_entrants,
                   address, has_address, phases, total_dqs, sets, cursor,
                   attempt, raised>>

NextEvent ==
    \/ gather_entrant_counts
    \/ get_dqs_set
    \/ count_entrants_of_sets
    \/ gather_location_info
    \/ retrieve_start_time
    \/ calculate_tier

SpecEvent == InitEvent /\ [][NextEvent]_vars

\* ------------------------------------------------------------------------
\* SpecBulk: ultrank_bulk.bulk_score over a list of slugs

Genesis == "tournament/genesis/event/melee"
Shine   == "tournament/shine/event/melee"
Pound   == "tournament/pound/event/melee"
Url     == "https://start.gg/tournament/genesis/event/melee"

\* startgg_slug_regex.fullmatch: the whole string has the shape
\* tournament/<name>/event/<name>
fullmatch(slug) == slug \in {Genesis, Shine, Pound}

\* what the API and the geocoder hold for the events behind the slugs:
\* Shine has a set with a standing on the winner's slot only, the geocoder
\* knows no address for Pound
BulkEvents(slug) ==
    CASE slug = Genesis ->
           [participants |-> {Mango, Zain}, dq_list |-> <<>>,
            address |-> Some(NoLocationAddress), start_time |-> 2,
            sets_raise |-> None]
      [] slug = Shine ->
           [participants |-> {}, dq_list |-> <<>>,
            address |-> Some(NoLocationAddress), start_time |-> 1,
            sets_raise |-> Some("TypeError")]
      [] slug = Pound ->
           [participants |-> {Anon}, dq_list |-> <<>>,
            address |-> None, start_time |-> 1, sets_raise |-> None]

\* Tournament(slug, invit) then calculate_tier(): the result, or the
\* exception that leaves either of them
tournament_tier(slug, invit, oid) ==
    LET ev == BulkEvents(slug)
    IN  IF ev.sets_raise /= None
        THEN [raised |-> ev.sets_raise, tier |-> None]
        ELSE IF \/ ev.address = None
                \/ select_region(region_mults, ev.address[1])[2] = None
        THEN [raised |-> Some("AttributeError"), tier |-> None]
        ELSE [raised |-> None,
              tier |-> Some(compute_tier(oid, region_mults, ev.address[1],
                          ev.participants, ev.dq_list,
                          count_entrants(ev.participants, ev.dq_list),
                          scored_players, scored_tags, ev.start_time, invit,
                          <<MainDone>>, -1))]

\* the entries of the list of bulk_score: a result or the slug string
ResultEntry(slug, result) ==
    [type |-> "TournamentTieringResult", slug |-> slug, value |-> result]

StrEntry(slug) == [type |-> "str", value |-> slug]

SlugObjs ==
    {[slug |-> slug, invit |-> FALSE] :
        slug \in {Genesis, Shine, Pound, Url, ""}}
    \cup {[slug |-> Genesis, invit |-> TRUE]}

InitBulk ==
    /\ scored_players = read_players_players(TagsFile, PlayersFile, InvitFile)
    /\ scored_tags = read_players_tags(TagsFile, PlayersFile)
    /\ \E file \in EventRegionFiles :
           region_mults \in IterationOrders(read_regions(file))
    /\ participants = {}
    /\ dq_list = <<>>
    /\ total_entrants = 0
    /\ address = NoLocationAddress
    /\ start_time = 1
    /\ is_invitational = FALSE
    /\ Constructed
    /\ tier = None
    /\ built = 0
    /\ raised = None
    /\ ret = NoCall
    /\ slugs \in UNION {[1..n -> SlugObjs] : n \in 0..MaxSlugs}
    /\ pending = slugs
    /\ results = <<>>
    /\ FetchIdle

\* a failing computation ends the loop
bulk_score_slug_aborting ==
    /\ pending /= <<>>
    /\ LET slug  == Head(pending).slug
           invit == Head(pending).invit
           t     == tournament_tier(slug, invit, Len(results) + 1)
       IN  IF fullmatch(slug)
           THEN IF t.raised = None
                THEN /\ results' = Append(results, ResultEntry(slug, t.tier[1]))
                     /\ pending' = Tail(pending)
                ELSE /\ results' = Append(results, StrEntry(slug))
                     /\ pending' = <<>>
           ELSE /\ results' = Append(results, StrEntry(slug))
                /\ pending' = Tail(pending)
    /\ UNCHANGED <<registryVars, region_mults, participants, dq_list,
                   total_entrants, address, start_time, is_invitational,
                   constructorVars, slugs, tier, built, raised, ret,
                   fetchVars>>

\* one pass of `for slug_obj in slugs`
bulk_score_slug ==
    /\ pending /= <<>>
    /\ LET slug  == Head(pending).slug
           invit == Head(pending).invit
           t     == tournament_tier(slug, invit, Len(results) + 1)
       IN  results' =
               Append(results,
                      IF fullmatch(slug)
                      THEN IF t.raised = None
                           THEN ResultEntry(slug, t.tier[1])
                           ELSE \* except Exception
                                StrEntry(slug)
                      ELSE StrEntry(slug))
    /\ pending' = Tail(pending)
    /\ UNCHANGED <<registryVars, region_mults, participants, dq_list,
                   total_entrants, address, start_time, is_invitational,
                   constructorVars, slugs, tier, built, raised, ret,
                   fetchVars>>

\* return results
bulk_score_return ==
    /\ pending = <<>>
    /\ ret[1] /= "bulk_score"
    /\ ret' = <<"bulk_score", Some(results), None>>
    /\ UNCHANGED <<registryVars, region_mults, tournamentVars, tier, built,
                   raised>>

NextBulk ==
    \/ bulk_score_slug
    \/ bulk_score_return

SpecBulk == InitBulk /\ [][NextBulk]_vars

\* ------------------------------------------------------------------------
\* SpecFetch: the paginated loops get_sets_in_phases and get_entrants
\* against a data source with a fixed totalPages

\* the nodes of page k: two per page within totalPages, none beyond
SetNodes(k) ==
    IF k > source.totalPages THEN <<>>
    ELSE <<SetData(None, Slot(10 * k + 1, Entrant(10 * k + 1, "anon"), None),
                   Slot(10 * k + 2, Entrant(10 * k + 2, "anon"), None)),
           SetData(Some(10 * k + 1),
                   Slot(10 * k + 1, Entrant(10 * k + 1, "anon"), Some(2)),
                   Slot(10 * k + 2, Entrant(10 * k + 2, "anon"), Some(0)))>>

EntrantNodes(k) ==
    IF k > source.totalPages THEN <<>>
    ELSE <<Entrant(10 * k + 1, "anon"), Entrant(10 * k + 2, "anon")>>

\* the request of page k fails, or its response lacks the data
Malformed(k) == source.broken = k

InitFetch ==
    /\ scored_players = <<>>
    /\ scored_tags = {}
    /\ region_mults = <<>>
    /\ participants = {}
    /\ dq_list = <<>>
    /\ total_entrants = 0
    /\ address = NoLocationAddress
    /\ start_time = 1
    /\ is_invitational = FALSE
    /\ Constructed
    /\ TierIdle
    /\ BulkIdle
    /\ source \in [totalPages : 0..MaxPages, broken : 0..MaxPages]
    /\ fetch \in {Some("get_sets_in_phases"), Some("get_entrants")}
    /\ fetch_pc = "loop"
    /\ page = 1
    /\ requested = <<>>
    /\ collected = IF fetch = Some("get_entrants") THEN {} ELSE <<>>

fetchRest == <<registryVars, region_mults, participants, dq_list,
               total_entrants, address, start_time, is_invitational,
               constructorVars, bulkVars, tier, built, ret, source, fetch>>

\* the loop ends after its first page
get_sets_in_phases_first_page_only ==
    /\ fetch = Some("get_sets_in_phases")
    /\ fetch_pc = "loop"
    /\ requested' = Append(requested, page)
    /\ IF Malformed(page)
       THEN /\ raised' = Some("KeyError")
            /\ fetch_pc' = "raised"
            /\ UNCHANGED <<collected, page>>
       ELSE /\ collected' = collected \o SetNodes(page)
            /\ fetch_pc' = "returned"
            /\ UNCHANGED <<raised, page>>
    /\ UNCHANGED fetchRest

\* one pass of `while True` in get_sets_in_phases
get_sets_in_phases_page ==
    /\ fetch = Some("get_sets_in_phases")
    /\ fetch_pc = "loop"
    /\ requested' = Append(requested, page)
    /\ IF Malformed(page)
       THEN \* resp['data'] fails: printed, raised again
            /\ raised' = Some("KeyError")
            /\ fetch_pc' = "raised"
            /\ UNCHANGED <<collected, page>>
       ELSE /\ collected' = collected \o SetNodes(page)
            /\ IF page >= source.totalPages
               THEN fetch_pc' = "returned" /\ UNCHANGED page
               ELSE fetch_pc' = "loop" /\ page' = page + 1
            /\ UNCHANGED raised
    /\ UNCHANGED fetchRest

\* one pass of `while True` in get_entrants
get_entrants_page ==
    /\ fetch = Some("get_entrants")
    /\ fetch_pc = "loop"
    /\ requested' = Append(requested, page)
    /\ IF Malformed(page)
       THEN \* resp['data'] fails in the for statement
            /\ raised' = Some("KeyError")
            /\ fetch_pc' = "raised"
            /\ UNCHANGED <<collected, page>>
       ELSE /\ collected' = collected \cup Range(EntrantNodes(page))
            /\ IF page >= source.totalPages
               THEN fetch_pc' = "returned" /\ UNCHANGED page
               ELSE fetch_pc' = "loop" /\ page' = page + 1
            /\ UNCHANGED raised
    /\ UNCHANGED fetchRest

NextFetch ==
    \/ get_sets_in_phases_page
    \/ get_entrants_page

SpecFetch == InitFetch /\ [][NextFetch]_vars

\* a pass of the loop that can run does run: the calls are blocking
SpecFetchLive == SpecFetch /\ WF_vars(NextFetch)

\* ------------------------------------------------------------------------
\* Properties

Computed == tier /= None

AllPointsZero(entries) == \A i \in 1..Len(entries) : entries[i].points = 0

\* C1: for every result of calculate_tier, should_count_strict() implies
\* should_count(): lenient eligibility is a superset of strict eligibility.
C1_StrictImpliesLenient ==
    Computed => (should_count_strict(tier[1]) => should_count(tier[1]))

\* a result that is strictly eligible by score, below the entrant floor,
\* with a potential match on record
C1_Witness ==
    /\ Computed
    /\ tier[1].entrants < tier[1].region.entrant_floor
    /\ should_count_strict(tier[1])
    /\ tier[1].potential /= <<>>

\* C2 as stated: max_potential_score() >= score, with equality if and only
\* if the result has no potential matches and no DQ'd valued entries.
C2_EqualityIffNoEntries ==
    Computed =>
        /\ max_potential_score(tier[1]) >= tier[1].score
        /\ (max_potential_score(tier[1]) = tier[1].score
               <=> (tier[1].potential = <<>> /\ tier[1].dqs = <<>>))

\* C2, amended: max_potential_score() >= score, with equality if and only if
\* every potential match and every DQ'd valued entry is worth 0 points (as
\* when both lists are empty).
C2_EqualityIffNothingToGain ==
    Computed =>
        /\ max_potential_score(tier[1]) >= tier[1].score
        /\ (max_potential_score(tier[1]) = tier[1].score
               <=> /\ AllPointsZero(tier[1].potential)
                   /\ \A i \in 1..Len(tier[1].dqs) :
                          tier[1].dqs[i].value.points = 0)

\* a result with a potential match that adds nothing
C2_Witness ==
    /\ Computed
    /\ tier[1].potential /= <<>>
    /\ max_potential_score(tier[1]) = tier[1].score

\* the parts of C3
NoValuedEntryOfDqId ==
    \A i \in 1..Len(tier[1].values) : \A k \in DOMAIN dq_list :
        tier[1].values[i].id_ /= IntKey(k)

DqEntriesAreOfDqIds ==
    \A i \in 1..Len(tier[1].dqs) : \E k \in DOMAIN dq_list :
        /\ tier[1].dqs[i].value.id_ = IntKey(k)
        /\ tier[1].dqs[i].dqs = dq_list[k][2]

IdMatchesOfDqsRecorded ==
    \A k \in DOMAIN dq_list :
        (/\ HasKey(scored_players, IntKey(k))
         /\ group_retrieve_value(Lookup(scored_players, IntKey(k)),
                                 start_time) /= None)
        => \E i \in 1..Len(tier[1].dqs) :
               /\ tier[1].dqs[i].value.id_ = IntKey(k)
               /\ tier[1].dqs[i].dqs = dq_list[k][2]

\* the groups that the tag of DQ'd entrant k matches, with a value in date
TagMatchesOfDq(k) ==
    {g \in 1..Len(scored_players) :
        /\ ~HasKey(scored_players, IntKey(k))
        /\ match_tag(scored_players[g], dq_list[k][1].tag)
        /\ group_retrieve_value(scored_players[g], start_time) /= None}

\* C3 as stated: no valued entry and no potential match belongs to a key of
\* the DQ map, and every match found for a disqualified entrant, by id or by
\* tag, is recorded in the DQ'd valued list.
C3_DqMatchesOnlyInDqList ==
    Computed =>
        /\ NoValuedEntryOfDqId
        /\ \A i \in 1..Len(tier[1].potential) :
               tier[1].potential[i].id_ \notin DOMAIN dq_list
        /\ IdMatchesOfDqsRecorded
        /\ \A k \in DOMAIN dq_list : \A g \in TagMatchesOfDq(k) :
               \E i \in 1..Len(tier[1].dqs) :
                   /\ tier[1].dqs[i].value.id_ = scored_players[g].id_
                   /\ tier[1].dqs[i].dqs = dq_list[k][2]

\* C3, amended: no valued entry belongs to a key of the DQ map; a potential
\* match belongs to a key of the DQ map exactly when it carries a DQ count
\* above 0, which is that entrant's count; every id match found for a
\* disqualified entrant is recorded in the DQ'd valued list, which holds
\* nothing else, and every tag match found for a disqualified entrant is
\* recorded in the potential-matches list.
C3_DqIdMatchesInDqList ==
    Computed =>
        /\ NoValuedEntryOfDqId
        /\ \A i \in 1..Len(tier[1].potential) :
               LET pot == tier[1].potential[i]
               IN  /\ (pot.id_ \in DOMAIN dq_list) <=> (pot.dqs > 0)
                   /\ pot.id_ \in DOMAIN dq_list
                          => pot.dqs = dq_list[pot.id_][2]
        /\ IdMatchesOfDqsRecorded
        /\ DqEntriesAreOfDqIds
        /\ \A k \in DOMAIN dq_list : \A g \in TagMatchesOfDq(k) :
               \E i \in 1..Len(tier[1].potential) :
                   /\ tier[1].potential[i].id_ = k
                   /\ tier[1].potential[i].actual_tag = scored_players[g].tag
                   /\ tier[1].potential[i].dqs = dq_list[k][2]

\* a disqualified player who also played, a tag match of a disqualified
\* entrant, a valued participant and a DQ'd valued entry in one result
C3_Witness ==
    /\ Computed
    /\ \E p \in participants : p.id_ \in DOMAIN dq_list
    /\ \E i \in 1..Len(tier[1].potential) : tier[1].potential[i].dqs > 0
    /\ tier[1].values /= <<>>
    /\ tier[1].dqs /= <<>>

\* [valid_from, valid_until) contains d; an absent bound is unbounded
WindowContains(value, d) ==
    /\ value.start_time = None \/ value.start_time[1] <= d
    /\ value.end_time = None \/ d < value.end_time[1]

\* C4: after any sequence of add_value calls, retrieve_value for date d
\* returns a value of the group whose window contains d and whose points are
\* the maximum among the values whose window contains d, and None when no
\* window contains d.
C4_RetrieveHighestInWindow ==
    ret[1] = "retrieve_value" =>
        LET group  == Lookup(scored_players, ret[3][1])
            result == ret[2][1]
            within == {i \in 1..Len(group.values) :
                          WindowContains(group.values[i], start_time)}
        IN  IF within = {} THEN result = None
            ELSE /\ result /= None
                 /\ \E i \in within : group.values[i] = result[1]
                 /\ \A i \in within : result[1].points >= group.values[i].points

\* retrieve_value returned a value while the group also holds a value of
\* fewer points in date and a value that is out of date
C4_Witness ==
    /\ ret[1] = "retrieve_value"
    /\ ret[2][1] /= None
    /\ LET group == Lookup(scored_players, ret[3][1])
       IN  /\ \E i \in 1..Len(group.values) :
                  /\ WindowContains(group.values[i], start_time)
                  /\ group.values[i].points < ret[2][1][1].points
           /\ \E i \in 1..Len(group.values) :
                  ~WindowContains(group.values[i], start_time)

\* the geographic fields a rule names
Populated(rule) ==
    (IF rule.country_code /= "" THEN {"country_code"} ELSE {})
    \cup (IF rule.iso2 /= "" THEN {"iso2"} ELSE {})
    \cup (IF rule.county /= "" THEN {"county"} ELSE {})
    \cup (IF rule.city /= "" THEN {"city"} ELSE {})
    \cup (IF rule.jp_postal /= <<>> THEN {"jp_postal"} ELSE {})

\* every field the rule names equals that field of the address
AgreesWith(rule, addr) ==
    /\ rule.country_code /= ""
           => Get(addr, "country_code", "") = rule.country_code
    /\ rule.iso2 /= ""
           => \/ Get(addr, "ISO3166-2-lvl4", "") = rule.iso2
              \/ Get(addr, "ISO3166-2-lvl3", "") = rule.iso2
    /\ rule.county /= "" => Get(addr, "county", "") = rule.county
    /\ rule.city /= "" => Get(addr, "city", "") = rule.city
    /\ rule.jp_postal /= <<>>
           => Slice02(Get(addr, "postcode", <<"X", "X">>)) = rule.jp_postal

MoreSpecific(a, b) ==
    Populated(b) \subseteq Populated(a) /\ Populated(b) /= Populated(a)

\* C5: calculate_tier selects a rule whose specificity for the address is
\* the greatest among all rules, and whenever two rules both match the
\* address and one is more specific, the more specific rule has the strictly
\* higher specificity and the coarser one is not the rule selected.
C5_MostSpecificRuleSelected ==
    Computed =>
        /\ \A r \in Range(region_mults) :
               region_match(tier[1].region, address)
                   >= region_match(r, address)
        /\ \A a, b \in Range(region_mults) :
               (AgreesWith(a, address) /\ AgreesWith(b, address)
                    /\ MoreSpecific(a, b))
               => /\ region_match(a, address) > region_match(b, address)
                  /\ tier[1].region /= b

\* C6: two tier computations on identical input snapshots, the rule set
\* being an unordered set, produce the same realized score, the same
\* eligibility flags and the same max potential score.  The second
\* computation walks the same rule set in any order a set can be walked.
C6_SameInputsSameResult ==
    Computed =>
        \A order \in IterationOrders(Range(region_mults)) :
            LET other == compute_tier(1, order, address, participants,
                             dq_list, total_entrants, scored_players,
                             scored_tags, start_time, is_invitational,
                             phases, total_dqs)
            IN  /\ other.score = tier[1].score
                /\ should_count_strict(other) = should_count_strict(tier[1])
                /\ should_count(other) = should_count(tier[1])
                /\ max_potential_score(other) = max_potential_score(tier[1])

\* C7: calculate_tier computes at most once per Tournament: once a result is
\* cached, every call returns that same result object, no further result is
\* built, and its score, lists, entrant count and region stay as they are.
C7_ComputedOnce ==
    [][Computed =>
          /\ tier' /= None
          /\ tier'[1].oid = tier[1].oid
          /\ tier'[1].score = tier[1].score
          /\ tier'[1].values = tier[1].values
          /\ tier'[1].dqs = tier[1].dqs
          /\ tier'[1].potential = tier[1].potential
          /\ tier'[1].entrants = tier[1].entrants
          /\ tier'[1].region = tier[1].region
          /\ built' = built
          /\ ret'[1] = "calculate_tier" => ret'[2] = Some(tier[1].oid)]_vars

\* calculate_tier was called again after max_potential_score had been
\* memoised on the cached result
C7_Witness ==
    /\ Computed
    /\ tier[1].max_score /= None
    /\ ret = <<"calculate_tier", Some(tier[1].oid), None>>

RECURSIVE SumSeq(_)
SumSeq(q) == IF q = <<>> THEN 0 ELSE Head(q) + SumSeq(Tail(q))

\* points + (invitational bonus if the tournament is invitational) of the
\* valued participants
ValuedPoints(result) ==
    SumSeq([i \in 1..Len(result.values) |->
               result.values[i].player_value.points
                 + (IF result.is_invitational
                    THEN result.values[i].player_value.invitational_val
                    ELSE 0)])

\* C8: the realized score equals entrant_count * chosen_region.multiplier
\* plus the sum over the valued participants of points + (invitational bonus
\* if invitational); potential matches and DQ'd entries add nothing.
C8_RealizedScore ==
    Computed =>
        tier[1].score = tier[1].entrants * tier[1].region.multiplier
                            + ValuedPoints(tier[1])

\* multiplier 1, 50 entrants, valued 100, 80 and 50: 280
C8_Witness ==
    /\ Computed
    /\ tier[1].region.multiplier = 1
    /\ tier[1].entrants = 50
    /\ [i \in 1..Len(tier[1].values) |-> tier[1].values[i].points]
           = <<100, 80, 50>>
    /\ tier[1].score = 280

\* the disqualified ids that the registry knows with a value in date
DqValuedIds ==
    {k \in DOMAIN dq_list :
        /\ HasKey(scored_players, IntKey(k))
        /\ group_retrieve_value(Lookup(scored_players, IntKey(k)),
                                start_time) /= None}

DqPoints(k) ==
    counted_points(
        group_retrieve_value(Lookup(scored_players, IntKey(k)),
                             start_time)[1], is_invitational)

\* C9: a player whose id is in the registry and in the DQ map, whether or
\* not that player is also a genuine participant, appears only in the DQ'd
\* valued list (once, with the DQ count, when a value is in date), adds 0 to
\* the realized score and adds the points of the value in date to
\* max_potential_score.
C9_DqPlayerOnlyInDqList ==
    Computed =>
        /\ \A k \in DOMAIN dq_list :
               HasKey(scored_players, IntKey(k)) =>
                   LET mine == {i \in 1..Len(tier[1].dqs) :
                                   tier[1].dqs[i].value.id_ = IntKey(k)}
                   IN  /\ \A i \in 1..Len(tier[1].values) :
                              tier[1].values[i].id_ /= IntKey(k)
                       /\ \A i \in 1..Len(tier[1].potential) :
                              tier[1].potential[i].id_ /= k
                       /\ Cardinality(mine) =
                              (IF k \in DqValuedIds THEN 1 ELSE 0)
                       /\ \A i \in mine :
                              /\ tier[1].dqs[i].value.points = DqPoints(k)
                              /\ tier[1].dqs[i].dqs = dq_list[k][2]
        /\ tier[1].score = tier[1].entrants * tier[1].region.multiplier
                               + ValuedPoints(tier[1])
        /\ max_potential_score(tier[1]) =
               tier[1].score
                 + SumValues(potential_player_scores(tier[1].potential))
                 + SumSeq([i \in 1..Cardinality(DqValuedIds) |->
                              DqPoints(IntsAscending(DqValuedIds)[i])])

\* a player with 2 DQs and a value of 90, and a player who was disqualified
\* once and also played: +0 realized, +90 and +100 max potential
C9_Witness ==
    /\ Computed
    /\ DOMAIN dq_list = {1, 4}
    /\ dq_list[4][2] = 2
    /\ Entrant(1, "Mango") \in participants
    /\ ~is_invitational
    /\ tier[1].potential = <<>>
    /\ Len(tier[1].dqs) = 2
    /\ tier[1].dqs[1].value.points = 90
    /\ max_potential_score(tier[1]) = tier[1].score + 190

\* rule {multiplier 1, entrant_floor 64, score_floor 250}, 40 entrants, one
\* valued participant worth 100 and one potential match worth 60
C10_Scenario ==
    /\ Computed
    /\ tier[1].region.multiplier = 1
    /\ tier[1].region.entrant_floor = 64
    /\ tier[1].region.score_floor = 250
    /\ tier[1].entrants = 40
    /\ Len(tier[1].values) = 1
    /\ tier[1].values[1].points = 100
    /\ Len(tier[1].potential) = 1
    /\ tier[1].potential[1].points = 60
    /\ tier[1].dqs = <<>>

\* C10 as stated: in the scenario realized_score = 240, max_potential_score
\* = 300, should_count_strict() is False and should_count() is True.
C10_ScenarioAsStated ==
    C10_Scenario =>
        /\ tier[1].score = 240
        /\ max_potential_score(tier[1]) = 300
        /\ ~should_count_strict(tier[1])
        /\ should_count(tier[1])

\* C10, amended: in the scenario realized_score = 140, max_potential_score
\* = 200, should_count_strict() is False and should_count() is False.
C10_ScenarioAsComputed ==
    C10_Scenario =>
        /\ tier[1].score = 140
        /\ max_potential_score(tier[1]) = 200
        /\ ~should_count_strict(tier[1])
        /\ ~should_count(tier[1])

\* the scenario, with should_count() called on its result
C10_Witness ==
    /\ C10_Scenario
    /\ ret = <<"should_count", Some(FALSE), None>>

\* C11: should_count_strict() is true exactly when the entrant count reaches
\* the region's entrant floor, or the realized score reaches the score floor
\* with at least 2 valued participants; potential matches and DQ'd entries
\* play no part.  An event of 70 unknown entrants under the rule with
\* multiplier 1 and floors 64/250 scores 70 and is strictly eligible.
C11_StrictRule ==
    (Computed /\ ret[1] = "should_count_strict") =>
        /\ ret[2][1] =
              (\/ tier[1].entrants >= tier[1].region.entrant_floor
               \/ /\ tier[1].score >= tier[1].region.score_floor
                  /\ Len(tier[1].values) >= 2)
        /\ (/\ tier[1].entrants = 70
            /\ tier[1].region = US1
            /\ tier[1].values = <<>>)
               => (tier[1].score = 70 /\ ret[2][1] = TRUE)
        /\ (/\ tier[1].entrants < tier[1].region.entrant_floor
            /\ Len(tier[1].values) < 2)
               => ret[2][1] = FALSE

\* the 70-entrant event: strictly eligible by the entrant floor alone
C11_Witness ==
    /\ Computed
    /\ ret = <<"should_count_strict", Some(TRUE), None>>
    /\ tier[1].entrants = 70
    /\ tier[1].region = US1
    /\ tier[1].values = <<>>
    /\ tier[1].score = 70

\* the constructor is past gather_entrant_counts
Counted == pc \in {"gather_location_info", "retrieve_start_time", "done"}

\* some phase of the event is in state COMPLETED and is not an exhibition
MainPhaseCompleted ==
    \E i \in 1..Len(event_phases) :
        /\ event_phases[i].state = "COMPLETED"
        /\ event_phases[i].isExhibition = FALSE

ParticipantIds == {part.id_ : part \in participants}

\* C12: when a non-exhibition phase is completed, total_entrants is the
\* number of genuine participants plus the number of disqualified player
\* ids that are not among them; a player disqualified in one set who played
\* another is counted once, so every player id seen is counted once.
C12_EntrantCount ==
    (Counted /\ MainPhaseCompleted) =>
        /\ total_entrants =
               Cardinality(participants)
               + Cardinality(DOMAIN dq_list \ ParticipantIds)
        /\ (\A a, b \in participants : a.id_ = b.id_ => a = b)
               => total_entrants =
                      Cardinality(ParticipantIds \cup DOMAIN dq_list)

\* Mango was disqualified in one set and played Zain in another
C12_Witness ==
    /\ pc = "done"
    /\ MainPhaseCompleted
    /\ Mango \in participants
    /\ 1 \in DOMAIN dq_list
    /\ total_entrants = 2

C14_GeocoderErrorPropagates ==
    /\ attempt <= 5
    /\ has_address => pc \in {"retrieve_start_time", "done"}
    /\ (attempt = 5 /\ ~has_address) => (pc = "raised" /\ raised /= None)
    /\ pc \in {"retrieve_start_time", "done"} => has_address

\* what get_dqs is said to make of a set
HasWinner(set_data) == set_data.winnerId /= None

LoserSlot(set_data) ==
    IF set_data.winnerId[1] = set_data.slots[1].entrant.id THEN 2 ELSE 1

LostByDq(set_data) ==
    /\ HasWinner(set_data)
    /\ \/ /\ set_data.slots[1].standing = None
          /\ set_data.slots[2].standing = None
       \/ set_data.slots[LoserSlot(set_data)].standing = Some(-1)

LoserOf(set_data) == set_data.slots[LoserSlot(set_data)].entrant.player

\* the sets among the first k that player id lost by disqualification
DqLosses(id, k) ==
    {i \in 1..k : LostByDq(sets[i]) /\ LoserOf(sets[i]).id_ = id}

\* C17: get_dqs handles every set: a set without a winner changes nothing;
\* a set lost by disqualification (no standing on either slot, or loser's
\* score -1) adds 1 to the loser's count, the stored Entrant being that of
\* the first such set; any other set adds both competitors to the
\* participants.  So each id's count is the number of sets it lost by DQ.
C17_GetDqs ==
    (pc /= "gather_entrant_counts" /\ MainPhaseCompleted) =>
        /\ pc /= "raised"
        /\ DOMAIN dq_list =
               {LoserOf(sets[i]).id_ :
                    i \in {j \in 1..cursor : LostByDq(sets[j])}}
        /\ \A id \in DOMAIN dq_list :
               /\ dq_list[id][2] = Cardinality(DqLosses(id, cursor))
               /\ \E first \in DqLosses(id, cursor) :
                      /\ \A i \in DqLosses(id, cursor) : first <= i
                      /\ dq_list[id][1] = LoserOf(sets[first])
        /\ participants =
               UNION {{sets[i].slots[1].entrant.player,
                       sets[i].slots[2].entrant.player} :
                         i \in {j \in 1..cursor :
                                   HasWinner(sets[j]) /\ ~LostByDq(sets[j])}}

\* C15: bulk_score returns a list as long as its argument and in its order:
\* position i holds the result of slug i when the slug is well formed and
\* its computation succeeded, else the slug string; a failure neither ends
\* the loop nor touches the other positions.
C15_BulkIsolation ==
    /\ Len(results) + Len(pending) = Len(slugs)
    /\ \A i \in 1..Len(results) :
           IF slugs[i].slug = Genesis
           THEN /\ results[i].type = "TournamentTieringResult"
                /\ results[i].slug = slugs[i].slug
                /\ results[i].value.is_invitational = slugs[i].invit
                /\ results[i].value.entrants = 2
           ELSE /\ results[i].type = "str"
                /\ results[i].value = slugs[i].slug
    /\ ret[1] = "bulk_score" =>
           (ret[2][1] = results /\ Len(results) = Len(slugs))

\* a list returned with a result, a slug whose computation raised, and a
\* result after it
C15_Witness ==
    /\ ret[1] = "bulk_score"
    /\ Len(ret[2][1]) = 3
    /\ ret[2][1][1].type = "TournamentTieringResult"
    /\ ret[2][1][2] = StrEntry(Shine)
    /\ ret[2][1][3].type = "TournamentTieringResult"

Rules == Range(region_mults)

CountryMatches(rule) ==
    rule.country_code /= "" /\ Get(address, "country_code", "") = rule.country_code

SubdivisionMatches(rule) ==
    /\ rule.iso2 /= ""
    /\ \/ Get(address, "ISO3166-2-lvl4", "") = rule.iso2
       \/ Get(address, "ISO3166-2-lvl3", "") = rule.iso2

CountyOrCityMatches(rule) ==
    \/ rule.county /= "" /\ Get(address, "county", "") = rule.county
    \/ rule.county = "" /\ rule.city /= ""
          /\ Get(address, "city", "") = rule.city

PostalPrefixMatches(rule) ==
    /\ rule.jp_postal /= <<>>
    /\ "postcode" \in DOMAIN address
    /\ Len(address.postcode) >= 2
    /\ SubSeq(address.postcode, 1, 2) = rule.jp_postal

\* C16: the universal fallback rule (empty country code) has specificity 1
\* for every address and a rule of another country has specificity 0; so
\* with the fallback in the rule set calculate_tier always finds a region:
\* best_region is never None and no error for a missing region occurs.
C16_FallbackAlwaysSelects ==
    /\ \A rule \in Rules :
           /\ rule.country_code = "" => region_match(rule, address) = 1
           /\ (rule.country_code /= "" /\ ~CountryMatches(rule))
                 => region_match(rule, address) = 0
    /\ (\E rule \in Rules : rule.country_code = "") =>
           /\ select_region(region_mults, address)[2] /= None
           /\ raised = None
           /\ ret[1] = "calculate_tier" => Computed

\* an address without a country, tiered under the fallback although rules
\* of other countries are present
C16_Witness ==
    /\ Computed
    /\ "country_code" \notin DOMAIN address
    /\ tier[1].region = ALL
    /\ Cardinality(Rules) = 3

\* C18: match adds the county/city-level points whenever the subdivision
\* matched or was a wildcard: country + wildcard subdivision + neither
\* county nor city gives 2 + 1 + 1; with a matching subdivision, +1 when the
\* rule names neither county nor city, +2 when its county or city matches.
C18_CountyCityPoints ==
    \A rule \in Rules :
        (CountryMatches(rule) /\ rule.country_code /= "jp") =>
            /\ (rule.iso2 = "" /\ rule.county = "" /\ rule.city = "")
                  => region_match(rule, address) = 2 + 1 + 1
            /\ (SubdivisionMatches(rule) /\ rule.county = ""
                    /\ rule.city = "")
                  => region_match(rule, address) = 2 + 2 + 1
            /\ (SubdivisionMatches(rule) /\ CountyOrCityMatches(rule))
                  => region_match(rule, address) = 2 + 2 + 2

\* C20: the rule calculate_tier selects is consistent with the address:
\* each non-empty country, subdivision, county or city and postal prefix of
\* the rule equals the address's; a rule that differs from the address in
\* one of them is never selected over the universal fallback.
C20_SelectedRuleConsistent ==
    Computed =>
        LET rule == tier[1].region
        IN  /\ rule.country_code /= "" => CountryMatches(rule)
            /\ rule.iso2 /= "" => SubdivisionMatches(rule)
            /\ (rule.county /= "" \/ rule.city /= "")
                  => CountyOrCityMatches(rule)
            /\ rule.jp_postal /= <<>> => PostalPrefixMatches(rule)

\* the greatest points among the <<id, points>> pairs of one id
BestPoints(pairs, id) ==
    LET points == {pairs[i][2] : i \in {j \in 1..Len(pairs) : pairs[j][1] = id}}
    IN  CHOOSE m \in points : \A p \in points : p <= m

\* the sum over the ids of a set of each id's best points
RECURSIVE SumOfBest(_, _)
SumOfBest(pairs, ids) ==
    IF ids = {} THEN 0
    ELSE LET id == CHOOSE x \in ids : TRUE
         IN  BestPoints(pairs, id) + SumOfBest(pairs, ids \ {id})

PotentialPairs ==
    [i \in 1..Len(tier[1].potential) |->
        <<tier[1].potential[i].id_, tier[1].potential[i].points>>]

DqPairs ==
    [i \in 1..Len(tier[1].dqs) |->
        <<tier[1].dqs[i].value.id_, tier[1].dqs[i].value.points>>]

BestCase ==
    tier[1].score
    + SumOfBest(PotentialPairs, {PotentialPairs[i][1] : i \in 1..Len(PotentialPairs)})
    + SumOfBest(DqPairs, {DqPairs[i][1] : i \in 1..Len(DqPairs)})

\* C19: max_potential_score() is the realized score plus, for each distinct
\* entrant id among the potential matches, the greatest points of that id's
\* candidates, plus, for each distinct id of the DQ'd valued list, that id's
\* best points; the first call computes it and every later call returns the
\* same value.
C19_MaxPotentialScore ==
    Computed =>
        /\ max_potential_score(tier[1]) = BestCase
        /\ tier[1].max_score /= None => tier[1].max_score[1] = BestCase
        /\ ret[1] = "max_potential_score" =>
               (ret[2][1] = BestCase /\ tier[1].max_score = Some(BestCase))

\* an entrant with two candidate groups, counted once at its best candidate,
\* next to a DQ'd valued player, after max_potential_score() was called
C19_Witness ==
    /\ Computed
    /\ ret[1] = "max_potential_score"
    /\ tier[1].max_score /= None
    /\ \E i, j \in 1..Len(tier[1].potential) :
           /\ i /= j
           /\ tier[1].potential[i].id_ = tier[1].potential[j].id_
           /\ tier[1].potential[i].points /= tier[1].potential[j].points
    /\ tier[1].dqs /= <<>>
    /\ ret[2][1] > tier[1].score + 30

\* the player ids behind the entries of a result
ValuedIds == {tier[1].values[i].id_ : i \in 1..Len(tier[1].values)}

QualifiedIds ==
    ValuedIds
    \cup {IntKey(tier[1].potential[i].id_) : i \in 1..Len(tier[1].potential)}
    \cup {tier[1].dqs[i].value.id_ : i \in 1..Len(tier[1].dqs)}

\* C21: each player id contributes to the realized score and to the entrant
\* count at most once per event, also when the participant set holds
\* several Entrant objects of one player id with different tags.
C21_OncePerPlayerId ==
    Computed =>
        /\ \A i, j \in 1..Len(tier[1].values) :
               tier[1].values[i].id_ = tier[1].values[j].id_ => i = j
        /\ tier[1].entrants = Cardinality(ParticipantIds \cup DOMAIN dq_list)

\* C22: below the entrant floor, should_count() is true only if at least
\* two distinct entrant player ids occur among the valued, potential and
\* DQ'd valued lists; one ambiguous entrant matching several registry
\* groups does not satisfy the two-player requirement alone.
C22_TwoDistinctPlayers ==
    (/\ Computed
     /\ tier[1].entrants < tier[1].region.entrant_floor
     /\ should_count(tier[1]))
        => Cardinality(QualifiedIds) >= 2

\* C23: after any interleaving of add_value and set_invitational_val on a
\* PlayerValueGroup, every value of the group carries the group's current
\* invitational_val, which is the last value set (0 if none was set), and
\* the values are ordered by non-increasing points.
C23_BonusAndOrder ==
    [][\A i \in 1..Len(scored_players') :
          LET group == scored_players'[i]
          IN  /\ \A k \in 1..Len(group.values) :
                     group.values[k].invitational_val = group.invitational_val
              /\ \A k \in 1..(Len(group.values) - 1) :
                     group.values[k].points >= group.values[k + 1].points
              /\ group.invitational_val =
                     IF /\ ret'[1] = "set_invitational_val"
                        /\ ret'[3] = Some(group.id_)
                     THEN ret'[2][1]
                     ELSE IF HasKey(scored_players, group.id_)
                     THEN Lookup(scored_players, group.id_).invitational_val
                     ELSE 0]_vars

\* a group whose bonus was set to 20 before its latest value was added:
\* every value carries 20 and the values stand in order of points
C23_Witness ==
    /\ ret[1] = "add_value"
    /\ \E i \in 1..Len(scored_players) :
           LET group == scored_players[i]
           IN  /\ group.invitational_val = 20
               /\ Len(group.values) >= 2
               /\ group.values[1].points > group.values[Len(group.values)].points
               /\ \A k \in 1..Len(group.values) :
                      group.values[k].invitational_val = 20

\* C24: the dq_count of every result is the unknown sentinel -1, with or
\* without a completed non-exhibition phase: gather_entrant_counts ends with
\* total_dqs = -1, while total_entrants keeps the DQ-only players it counted.
C24_DqCountUnknown ==
    /\ Counted => total_dqs = -1
    /\ Computed =>
           /\ tier[1].dq_count = -1
           /\ tier[1].entrants =
                  Cardinality(participants)
                  + Cardinality(DOMAIN dq_list \ ParticipantIds)

\* a result of an event with a completed main phase and a player who only
\* ever lost by disqualification
C24_Witness ==
    /\ Computed
    /\ MainPhaseCompleted
    /\ DOMAIN dq_list \ ParticipantIds /= {}
    /\ participants /= {}
    /\ tier[1].entrants = Cardinality(participants) + 1
    /\ tier[1].dq_count = -1

LastPage == Max(1, source.totalPages)

RECURSIVE AllSetNodes(_)
AllSetNodes(k) == IF k = 0 THEN <<>> ELSE AllSetNodes(k - 1) \o SetNodes(k)

FetchInOrder ==
    /\ requested = [i \in 1..Len(requested) |-> i]
    /\ Len(requested) <= LastPage
    /\ fetch_pc = "returned" =>
           /\ Len(requested) = LastPage
           /\ \A k \in 1..LastPage : ~Malformed(k)
           /\ fetch = Some("get_sets_in_phases") =>
                  collected = AllSetNodes(LastPage)
           /\ fetch = Some("get_entrants") =>
                  collected =
                      UNION {Range(EntrantNodes(k)) : k \in 1..LastPage}
    /\ fetch_pc = "raised" =>
           (requested /= <<>> /\ Malformed(requested[Len(requested)])
               /\ raised /= None)
    /\ (\E i \in 1..Len(requested) : Malformed(requested[i])) =>
           fetch_pc = "raised"

\* C25: with a fixed finite totalPages the paginated loops request pages
\* 1, 2, ..., max(1, totalPages) once each in increasing order, collect the
\* nodes of every page requested and stop; a failed or malformed response
\* raises instead of looping.  Either way the loop ends.
C25_FetchTerminates ==
    /\ []FetchInOrder
    /\ <>(fetch_pc \in {"returned", "raised"})

\* get_sets_in_phases returned after three pages
C25_Witness ==
    /\ fetch = Some("get_sets_in_phases")
    /\ fetch_pc = "returned"
    /\ source.totalPages = 3
    /\ requested = <<1, 2, 3>>
    /\ Len(collected) = 6

====
